---------------------------- MODULE Spec2Model ----------------------------
(***************************************************************************)
(* Model of packages/main/src/mainWindow.ts: the main-process window       *)
(* controller of podman-desktop.  One BrowserWindow is created or reused   *)
(* by restoreOrCreateWindow(); createWindow() registers a timer, three     *)
(* ipcMain listeners, the 'ready-to-show' and 'close' window handlers and  *)
(* an app 'before-quit' handler, then awaits loadURL().                    *)
(*                                                                         *)
(* Every action is one turn of the Electron main-process event loop: a     *)
(* callback runs to completion (to its next await) before another starts.  *)
(***************************************************************************)
EXTENDS Integers, Sequences, FiniteSets, Bags, TLC

\* ------------------------------------------------------------------ bounds
MaxWindows == 2     \* BrowserWindow objects constructed in one run
MaxMsgs    == 2     \* inbound ipcMain messages in one run

\* ------------------------------------------------------- environment values
Platforms == {"linux", "darwin", "win32"}

\* A URL is a record; Undefined stands for `undefined` (variable not set).
Undefined    == [protocol |-> "undefined", host |-> "", path |-> <<>>]
DevServerUrl == [protocol |-> "http:", host |-> "localhost:3000", path |-> <<>>]
DevUrlValues == {Undefined, DevServerUrl}

\* __dirname of the bundled main process, as path segments.
Dirname == <<"app", "packages", "main", "dist">>

\* Values carried by messages.
DialogIds   == <<"A", "B">>            \* opaque tokens, named in order of first use
Prompts     == {"pick"}
Payloads    == {"c1"}
IpcMainEvent == "IpcMainEvent"          \* the event object ipcMain passes first
PickerResults == { [canceled |-> TRUE,  filePaths |-> <<>>],
                   [canceled |-> FALSE, filePaths |-> <<"/f">>] }
NoResult == [canceled |-> TRUE, filePaths |-> <<"-">>]

VARIABLES
    platform,              \* process.platform
    DEV,                   \* import.meta.env.DEV
    VITE_DEV_SERVER_URL,   \* import.meta.env.VITE_DEV_SERVER_URL
    windows,               \* every BrowserWindow constructed, in order
    dockVisible,           \* app.dock (macOS)
    inbound,               \* messages received by ipcMain, in order
    dialogs,               \* dialog.showOpenDialog calls, in order
    sent,                  \* webContents.send calls so far (a bag)
    lastCalls              \* window calls of lines 142-150, when the last window
                           \* or app callback was a completing restoreOrCreateWindow()

vars == <<platform, DEV, VITE_DEV_SERVER_URL, windows, dockVisible,
          inbound, dialogs, sent, lastCalls>>

isLinux == platform = "linux"
isMac   == platform = "darwin"

\* ------------------------------------------------------------ URL handling
RECURSIVE ResolveSegments(_, _)
ResolveSegments(stack, rel) ==
    IF rel = <<>> THEN stack
    ELSE IF Head(rel) = ".."
         THEN ResolveSegments(IF stack = <<>> THEN <<>>
                              ELSE SubSeq(stack, 1, Len(stack) - 1), Tail(rel))
    ELSE IF Head(rel) = "."
         THEN ResolveSegments(stack, Tail(rel))
    ELSE ResolveSegments(Append(stack, Head(rel)), Tail(rel))

\* new URL(rel, 'file://' + dir): the last segment of the base is a file name
\* and is dropped before the relative reference is applied.
NewURL(rel, dir) ==
    [protocol |-> "file:", host |-> "",
     path |-> ResolveSegments(IF dir = <<>> THEN <<>>
                              ELSE SubSeq(dir, 1, Len(dir) - 1), rel)]

ProductionUrl == NewURL(<<"..", "renderer", "dist", "index.html">>, Dirname)

pageUrlIgnoringMode ==
    IF VITE_DEV_SERVER_URL # Undefined THEN VITE_DEV_SERVER_URL ELSE ProductionUrl

pageUrl ==
    IF DEV /\ VITE_DEV_SERVER_URL # Undefined
    THEN VITE_DEV_SERVER_URL
    ELSE ProductionUrl

\* ------------------------------------------------- BrowserWindow operations
\* Lines 39-51: the options as assigned in order; the block at line 46 is
\* guarded by `if (true)`.  An option never assigned keeps Electron's default.
titleBarStyleKeepInset == IF isMac THEN "hiddenInset" ELSE "hidden"

titleBarStyle ==
    LET afterMac == IF isMac THEN "hiddenInset" ELSE "default"
    IN  IF TRUE THEN "hidden" ELSE afterMac

frame == IF TRUE /\ ~isMac THEN FALSE ELSE TRUE

\* new BrowserWindow(options) followed by the start of loadURL(pageUrl).
NewBrowserWindow ==
    [destroyed |-> FALSE, visible |-> FALSE, minimized |-> FALSE,
     focused |-> FALSE, ready |-> FALSE, devTools |-> FALSE,
     titleBarStyle |-> titleBarStyle, frame |-> frame,
     url |-> pageUrl, load |-> "loading", timer |-> "pending"]

show(w)     == [w EXCEPT !.visible = TRUE, !.focused = ~w.minimized]
hide(w)     == [w EXCEPT !.visible = FALSE, !.focused = FALSE]
minimize(w) == [w EXCEPT !.minimized = TRUE, !.focused = FALSE]
restore(w)  == [w EXCEPT !.minimized = FALSE]
focus(w)    == [w EXCEPT !.focused = w.visible /\ ~w.minimized]
\* A destroyed window has no window state left: every accessor but
\* isDestroyed() throws, its page is gone and its pending load never settles.
\* What it was constructed with, and its timer, remain.
destroy(w)  == [w EXCEPT !.destroyed = TRUE, !.visible = FALSE,
                         !.minimized = FALSE, !.focused = FALSE,
                         !.ready = FALSE, !.devTools = FALSE,
                         !.load = "destroyed"]

Live == {i \in DOMAIN windows : ~windows[i].destroyed}

\* BrowserWindow.getAllWindows().find(w => !w.isDestroyed()); 0 is undefined.
findSkippingLoading ==
    LET S == {i \in Live : windows[i].load # "loading"}
    IN  IF S = {} THEN 0 ELSE CHOOSE i \in S : \A j \in S : i <= j

findIgnoringDestroyed == IF windows = <<>> THEN 0 ELSE 1

findWindow ==
    IF Live = {} THEN 0 ELSE CHOOSE i \in Live : \A j \in Live : i <= j

\* Lines 142-150: restore if minimized, show if not visible, focus.
alwaysShowCalls(w) ==
    (IF w.minimized THEN <<"restore">> ELSE <<>>) \o <<"show", "focus">>

neverRestoreCalls(w) ==
    (IF ~w.visible THEN <<"show">> ELSE <<>>) \o <<"focus">>

neverShowCalls(w) ==
    (IF w.minimized THEN <<"restore">> ELSE <<>>) \o <<"focus">>

ensureCalls(w) ==
    (IF w.minimized THEN <<"restore">> ELSE <<>>)
      \o (IF ~w.visible THEN <<"show">> ELSE <<>>)
      \o <<"focus">>

RECURSIVE apply(_, _)
apply(w, calls) ==
    IF calls = <<>> THEN w
    ELSE LET c == Head(calls)
             w1 == CASE c = "restore"  -> restore(w)
                      [] c = "show"     -> show(w)
                      [] c = "focus"    -> focus(w)
                      [] c = "hide"     -> hide(w)
                      [] c = "minimize" -> minimize(w)
                      [] c = "destroy"  -> destroy(w)
         IN  apply(w1, Tail(calls))

\* -------------------------------------------------------------------- Init
Init ==
    /\ platform \in Platforms
    /\ DEV \in BOOLEAN
    /\ VITE_DEV_SERVER_URL \in DevUrlValues
    /\ windows = <<>>
    /\ dockVisible = TRUE
    /\ inbound = <<>>
    /\ dialogs = <<>>
    /\ sent = EmptyBag
    /\ lastCalls = <<>>

env == <<platform, DEV, VITE_DEV_SERVER_URL>>

\* ------------------------------------------------- restoreOrCreateWindow()
\* The call up to its first await.  With a window found there is no await:
\* lines 142-150 run in the same turn.  Without one, createWindow() runs to
\* `await browserWindow.loadURL(pageUrl)` and the call is suspended.
restoreOrCreateWindow ==
    LET i == findWindow IN
    IF i # 0
    THEN /\ windows' = [windows EXCEPT ![i] = apply(@, ensureCalls(@))]
         /\ lastCalls' = ensureCalls(windows[i])
         /\ UNCHANGED <<env, dockVisible, inbound, dialogs, sent>>
    ELSE /\ Len(windows) < MaxWindows
         /\ windows' = Append(windows, NewBrowserWindow)
         /\ lastCalls' = <<>>
         /\ UNCHANGED <<env, dockVisible, inbound, dialogs, sent>>

\* loadURL() of window i resolves: createWindow() returns the window and the
\* suspended restoreOrCreateWindow() call continues with lines 142-150.
loadURLResolved(i) ==
    /\ i \in Live
    /\ windows[i].load = "loading"
    /\ LET w == [windows[i] EXCEPT !.load = "loaded"]
       IN  /\ windows' = [windows EXCEPT ![i] = apply(w, ensureCalls(w))]
           /\ lastCalls' = ensureCalls(w)
    /\ UNCHANGED <<env, dockVisible, inbound, dialogs, sent>>

\* loadURL() of window i rejects: createWindow() and the suspended call reject.
\* (The load of a destroyed window never settles.)
loadURLRejected(i) ==
    /\ i \in Live
    /\ windows[i].load = "loading"
    /\ windows' = [windows EXCEPT ![i].load = "failed"]
    /\ lastCalls' = <<>>
    /\ UNCHANGED <<env, dockVisible, inbound, dialogs, sent>>

\* ------------------------------------------------------- window handlers
\* browserWindow.on('ready-to-show', ...), emitted once per window.
readyToShow(i) ==
    /\ i \in Live
    /\ ~windows[i].ready
    /\ windows[i].load # "failed"
    /\ windows' = [windows EXCEPT ![i] =
                     [show(@) EXCEPT !.ready = TRUE, !.devTools = DEV]]
    /\ dockVisible' = IF isMac THEN TRUE ELSE dockVisible
    /\ lastCalls' = <<>>
    /\ UNCHANGED <<env, inbound, dialogs, sent>>

\* The 'close' listener: whether it prevents the default action, and the
\* window calls it makes.
closeWithoutPreventDefault == FALSE

closePrevented == TRUE

closeCallsAlwaysHide == <<"hide">>

closeCalls == IF isLinux THEN <<"minimize">> ELSE <<"hide">>

\* A close request on window i.  Electron destroys the window after the
\* listeners unless one of them called preventDefault().
closeRequest(i) ==
    /\ i \in Live
    /\ LET w == apply(windows[i], closeCalls)
       IN  windows' = [windows EXCEPT ![i] =
                         IF closePrevented THEN w ELSE destroy(w)]
    /\ dockVisible' = IF ~isLinux /\ isMac THEN FALSE ELSE dockVisible
    /\ lastCalls' = <<>>
    /\ UNCHANGED <<env, inbound, dialogs, sent>>

\* app 'before-quit': one listener per constructed window, never removed,
\* called in registration order; each calls destroy() on its own window.
\* destroy() on an already destroyed window either does nothing or throws
\* "Object has been destroyed", which ends the emit (throws = TRUE).
beforeQuit ==
    /\ \E throws \in BOOLEAN :
         LET dead == {i \in DOMAIN windows : windows[i].destroyed}
             stop == IF throws /\ dead # {}
                     THEN CHOOSE i \in dead : \A j \in dead : i <= j
                     ELSE Len(windows) + 1
         IN  /\ throws => dead # {}
             /\ windows' = [i \in DOMAIN windows |->
                              IF i < stop THEN destroy(windows[i]) ELSE windows[i]]
    /\ lastCalls' = <<>>
    /\ UNCHANGED <<env, dockVisible, inbound, dialogs, sent>>

WindowNext ==
    \/ restoreOrCreateWindow
    \/ \E i \in DOMAIN windows : loadURLResolved(i)
    \/ \E i \in DOMAIN windows : loadURLRejected(i)
    \/ \E i \in DOMAIN windows : readyToShow(i)
    \/ \E i \in DOMAIN windows : closeRequest(i)
    \/ beforeQuit

\* ------------------------------------------------------------ message relays
\* browserWindow.webContents.send(channel, ...args) by the closure of window
\* i, caused by inbound message req (0: the timer).  On a destroyed window
\* the call throws and nothing is sent (delivered = FALSE).
Send(i, channel, args, req) ==
    [to |-> i, channel |-> channel, args |-> args, req |-> req,
     delivered |-> ~windows[i].destroyed]

Dead == {i \in DOMAIN windows : windows[i].destroyed}

\* Listeners of one channel run in registration order, one per constructed
\* window.  A listener that throws ends the emit: the listeners up to and
\* including the first one that threw have run.
ranListeners(throws) ==
    IF throws /\ Dead # {}
    THEN 1 .. (CHOOSE i \in Dead : \A j \in Dead : i <= j)
    ELSE DOMAIN windows

\* setTimeout(() => send('container-stopped-event', 'containerID'), 5000)
timerFiredShowingWindow(i) ==
    /\ i \in DOMAIN windows
    /\ windows[i].timer = "pending"
    /\ windows' = [windows EXCEPT ![i] =
                      IF @.destroyed THEN [@ EXCEPT !.timer = "fired"]
                      ELSE show([@ EXCEPT !.timer = "fired"])]
    /\ sent' = sent (+) SetToBag({Send(i, "container-stopped-event", <<"containerID">>, 0)})
    /\ UNCHANGED <<env, dockVisible, inbound, dialogs, lastCalls>>

timerFiredUnlessDestroyed(i) ==
    /\ i \in Live
    /\ windows[i].timer = "pending"
    /\ windows' = [windows EXCEPT ![i].timer = "fired"]
    /\ sent' = sent (+) SetToBag({Send(i, "container-stopped-event", <<"containerID">>, 0)})
    /\ UNCHANGED <<env, dockVisible, inbound, dialogs, lastCalls>>

timerFired(i) ==
    /\ i \in DOMAIN windows
    /\ windows[i].timer = "pending"
    /\ windows' = [windows EXCEPT ![i].timer = "fired"]
    /\ sent' = sent (+) SetToBag({Send(i, "container-stopped-event", <<"containerID">>, 0)})
    /\ UNCHANGED <<env, dockVisible, inbound, dialogs, lastCalls>>

\* The arguments ipcMain passes to a listener: a message from a renderer
\* (ipcRenderer.send) arrives as (IpcMainEvent, payload); ipcMain.emit() in
\* the main process passes the payload alone.
listenerArgs(origin, payload) ==
    IF origin = "renderer" THEN <<IpcMainEvent, payload>> ELSE <<payload>>

\* ipcMain.on('container-stopped-event', (event) => send(..., event))
forwarded(args) == <<args[1]>>

containerStopped(origin, payload) ==
    /\ Len(inbound) < MaxMsgs
    /\ inbound' = Append(inbound,
                    [channel |-> "container-stopped-event", origin |-> origin,
                     payload |-> payload])
    /\ \E throws \in BOOLEAN :
         /\ throws => Dead # {}
         /\ LET ran == ranListeners(throws)
                n == Len(inbound) + 1
            IN  sent' = sent (+) SetToBag(
                  {Send(i, "container-stopped-event",
                        forwarded(listenerArgs(origin, payload)), n) : i \in ran})
    /\ UNCHANGED <<env, windows, dockVisible, dialogs, lastCalls>>

\* ipcMain.on('dialog:openFile' | 'dialog:openFolder', async (_, param) => ...)
\* up to `await dialog.showOpenDialog(browserWindow, ...)`.  Each listener
\* (one per constructed window) makes its own call.  With a destroyed parent
\* window the call either opens a dialog without a parent or rejects at once.
dialogProperties(channel) ==
    IF channel = "dialog:openFile" THEN <<"openFile">> ELSE <<"openDirectory">>

dialogRequest(channel, dialogId, message) ==
    /\ Len(inbound) < MaxMsgs
    /\ inbound' = Append(inbound,
                    [channel |-> channel, origin |-> "renderer",
                     payload |-> dialogId])
    /\ \E failing \in SUBSET Dead :
         dialogs' = dialogs \o
           [i \in DOMAIN windows |->
              [req |-> Len(inbound) + 1, win |-> i,
               properties |-> dialogProperties(channel), message |-> message,
               dialogId |-> dialogId,
               state |-> IF i \in failing THEN "rejected" ELSE "open",
               shown |-> i \notin failing,
               result |-> NoResult]]
    /\ UNCHANGED <<env, windows, dockVisible, sent, lastCalls>>

\* The dialogId the response carries: param.dialogId of the listener's own call.
latestDialogId(d) == dialogs[Len(dialogs)].dialogId

responseDialogId(d) == dialogs[d].dialogId

\* showOpenDialog() of call d resolves with the picker result; the listener
\* continues and sends the response.
dialogResolved(d, result) ==
    /\ d \in DOMAIN dialogs
    /\ dialogs[d].state = "open"
    /\ dialogs' = [dialogs EXCEPT ![d].state = "resolved", ![d].result = result]
    /\ sent' = sent (+) SetToBag(
                 {Send(dialogs[d].win, "dialog:open-file-or-folder-response",
                       <<responseDialogId(d), result>>, dialogs[d].req)})
    /\ UNCHANGED <<env, windows, dockVisible, inbound, lastCalls>>

\* showOpenDialog() of call d rejects: the listener's promise rejects and
\* nothing is sent.
dialogRejected(d) ==
    /\ d \in DOMAIN dialogs
    /\ dialogs[d].state = "open"
    /\ dialogs' = [dialogs EXCEPT ![d].state = "rejected"]
    /\ UNCHANGED <<env, windows, dockVisible, inbound, sent, lastCalls>>

\* The dialogIds the content process has used so far.  A dialogId is opaque
\* to the controller, so a request carries a used one or the next unused.
usedDialogIds ==
    {inbound[n].payload : n \in {m \in DOMAIN inbound :
                                   inbound[m].channel # "container-stopped-event"}}

Min(a, b) == IF a <= b THEN a ELSE b

\* The two dialog relays.
DialogNext ==
    \/ \E c \in {"dialog:openFile", "dialog:openFolder"},
          k \in 1 .. Min(Len(DialogIds), Cardinality(usedDialogIds) + 1),
          m \in Prompts : dialogRequest(c, DialogIds[k], m)
    \/ \E d \in DOMAIN dialogs, r \in PickerResults : dialogResolved(d, r)
    \/ \E d \in DOMAIN dialogs : dialogRejected(d)

\* The container-stopped relay and the deferred emission.
EventNext ==
    \/ \E i \in DOMAIN windows : timerFired(i)
    \/ \E o \in {"renderer", "emit"}, p \in Payloads : containerStopped(o, p)

Next == WindowNext \/ DialogNext \/ EventNext

\* The production build: DEV is off and no dev-server URL is set.
InitProduction == Init /\ ~DEV /\ VITE_DEV_SERVER_URL = Undefined

\* The whole controller, in the production build.
Spec == InitProduction /\ [][Next]_vars

\* The window lifecycle alone, in every build mode.
SpecWindow == Init /\ [][WindowNext]_vars

\* The window lifecycle with the dialog relays; with the container-stopped
\* relay and the timer.  The two groups of listeners share no state but the
\* log of sent messages, on different channels.
SpecDialogs == InitProduction /\ [][WindowNext \/ DialogNext]_vars

SpecEvents == InitProduction /\ [][WindowNext \/ EventNext]_vars

\* The whole controller on Linux, the platform whose close handler minimizes.
InitLinux == InitProduction /\ isLinux

SpecLinux == InitLinux /\ [][Next]_vars

\* ===================================================================== claims
\* Sum of the copies, in bag B, of the elements of set S.
RECURSIVE SumCopies(_, _)
SumCopies(S, B) ==
    IF S = {} THEN 0
    ELSE LET x == CHOOSE y \in S : TRUE
         IN  CopiesIn(x, B) + SumCopies(S \ {x}, B)

\* C1: whatever calls of restoreOrCreateWindow() are made, also one made
\* while an earlier call still awaits loadURL() inside createWindow(), there
\* is never more than one window that is not destroyed.
C1_Singleton == Cardinality(Live) <= 1

\* A second call has run while the first one still awaits the load: the
\* window is shown although neither its load nor ready-to-show has happened.
C1_Witness ==
    \E i \in Live : /\ windows[i].load = "loading"
                     /\ ~windows[i].ready
                     /\ windows[i].visible
                     /\ lastCalls = <<"show", "focus">>

\* C2: a close request never destroys the window, in any window state and
\* on any platform; a window becomes destroyed only in a 'before-quit' turn.
CloseStep == \E i \in DOMAIN windows : closeRequest(i)

Dies == \E i \in DOMAIN windows : ~windows[i].destroyed /\ windows'[i].destroyed

C2_CloseSuppression ==
    [][(CloseStep => ~Dies) /\ (Dies => beforeQuit)]_vars

\* A close request has acted on a window that had been shown: it is now
\* minimized (Linux) or hidden (elsewhere), and still not destroyed.
C2_Witness ==
    \E i \in Live : /\ windows[i].ready
                     /\ IF isLinux THEN windows[i].minimized ELSE ~windows[i].visible

\* C3: of two concurrent dialog requests with distinct dialogIds, each gets
\* exactly one response, carrying its own dialogId and the result of its own
\* picker, whichever dialog completes first.  (Stated of every showOpenDialog
\* call of a window that is still there: none delivered while the dialog is
\* open, one once it has resolved.)
ResponseChannel == "dialog:open-file-or-folder-response"

IsDialogRequest(n) == inbound[n].channel # "container-stopped-event"

DistinctId(n) ==
    \A m \in DOMAIN inbound :
        (m # n /\ IsDialogRequest(m)) => inbound[m].payload # inbound[n].payload

\* Responses delivered to the content of window i that carry dialogId id.
Delivered(i, id) ==
    SumCopies({s \in BagToSet(sent) : /\ s.channel = ResponseChannel
                                      /\ s.delivered
                                      /\ s.to = i
                                      /\ s.args[1] = id}, sent)

C3_DialogCorrelation ==
    \A d \in DOMAIN dialogs :
        LET D == dialogs[d]
        IN  (~windows[D.win].destroyed /\ DistinctId(D.req)) =>
              /\ D.state # "resolved" => Delivered(D.win, D.dialogId) = 0
              /\ D.state = "resolved" =>
                    /\ Delivered(D.win, D.dialogId) = 1
                    /\ CopiesIn([to |-> D.win, channel |-> ResponseChannel,
                                 args |-> <<D.dialogId, D.result>>,
                                 req |-> D.req, delivered |-> TRUE], sent) = 1

\* Two requests with distinct dialogIds are in flight on the same window, a
\* file picker and a folder picker, and the later one has completed first.
C3_Witness ==
    \E d, e \in DOMAIN dialogs :
        /\ dialogs[d].req < dialogs[e].req
        /\ dialogs[d].win = dialogs[e].win
        /\ ~windows[dialogs[d].win].destroyed
        /\ dialogs[d].dialogId # dialogs[e].dialogId
        /\ dialogs[d].properties # dialogs[e].properties
        /\ dialogs[d].state = "open"
        /\ dialogs[e].state = "resolved"
        /\ Delivered(dialogs[e].win, dialogs[e].dialogId) = 1

\* C4: one inbound dialog message that arrives while there is a window
\* causes exactly one native dialog to be shown, and at most one response is
\* ever sent for it, also after a window was destroyed and another built.
ResponsesSent(n) ==
    SumCopies({s \in BagToSet(sent) : s.channel = ResponseChannel /\ s.req = n}, sent)

C4_OnceShownOnceAnswered ==
    /\ [][(inbound' # inbound /\ findWindow # 0)
            => Cardinality({d \in DOMAIN dialogs' \ DOMAIN dialogs :
                              dialogs'[d].shown}) = 1]_vars
    /\ [](\A n \in DOMAIN inbound : ResponsesSent(n) <= 1)

\* C5: restoreOrCreateWindow() called while the existing window is minimized
\* leaves that window not minimized, visible and focused.
C5_MinimizeRestore ==
    [][(restoreOrCreateWindow /\ findWindow # 0 /\ windows[findWindow].minimized)
         => LET w == windows'[findWindow]
            IN  ~w.minimized /\ w.visible /\ w.focused]_vars

C5_Witness ==
    /\ lastCalls # <<>>
    /\ Head(lastCalls) = "restore"
    /\ \E i \in Live : ~windows[i].minimized /\ windows[i].visible /\ windows[i].focused

\* C6: every completed restoreOrCreateWindow() call, whatever the state it
\* started from, ends with exactly one window that is not destroyed, and
\* that window is visible, not minimized and focused; so does every further
\* call.
Converged ==
    \E i \in DOMAIN windows :
        /\ Live = {i}
        /\ windows[i].visible /\ ~windows[i].minimized /\ windows[i].focused

Completes ==
    \/ restoreOrCreateWindow /\ findWindow # 0
    \/ \E i \in DOMAIN windows : loadURLResolved(i)

C6_ActivationConverges == [][Completes => Converged']_vars

\* A call that started with only a destroyed window has completed.
C6_Witness ==
    /\ Len(windows) > 1
    /\ windows[1].destroyed
    /\ lastCalls # <<>>
    /\ Converged

\* C7: restoreOrCreateWindow() on a window that is already visible, not
\* minimized and focused changes no window and constructs none: it calls
\* neither restore() nor show().
C7_IdempotentActivation ==
    [][(Converged /\ restoreOrCreateWindow)
         => windows' = windows /\ lastCalls' = <<"focus">>]_vars

C7_Witness == Converged /\ lastCalls = <<"focus">>

\* C8: a window is visible only after its 'ready-to-show' event has fired.
C8_VisibleOnlyAfterReady ==
    \A i \in DOMAIN windows : windows[i].visible => windows[i].ready

\* C9: the URL loaded into a window is the dev-server URL exactly when
\* development mode is on and a dev-server URL is defined; in every other
\* combination it is the fixed production file location.
FixedProductionLocation ==
    [protocol |-> "file:", host |-> "",
     path |-> <<"app", "packages", "renderer", "dist", "index.html">>]

C9_ContentSource ==
    \A i \in DOMAIN windows :
        LET dev == DEV /\ VITE_DEV_SERVER_URL # Undefined
        IN  /\ (windows[i].url = VITE_DEV_SERVER_URL) <=> dev
            /\ ~dev => windows[i].url = FixedProductionLocation

C9_Witness ==
    \E i \in Live : windows[i].load = "loaded" /\ windows[i].url = DevServerUrl

\* C10: every inbound 'container-stopped-event' message that arrives while
\* there is a window is forwarded to that window's content, on the same
\* channel, carrying the payload the sender supplied.
C10_ForwardedUnchanged ==
    [][(inbound' # inbound /\ findWindow # 0)
         => LET n == Len(inbound')
            IN  CopiesIn([to |-> findWindow, channel |-> "container-stopped-event",
                          args |-> <<inbound'[n].payload>>, req |-> n,
                          delivered |-> TRUE], sent') = 1]_vars

\* C11: a destroyed window stays destroyed and never again becomes visible
\* or minimized; restoreOrCreateWindow() called when every window is
\* destroyed leaves them alone and constructs a new window, which starts
\* hidden with its load pending.
C11_DestroyedIsTerminal ==
    /\ [][\A i \in DOMAIN windows :
            windows[i].destroyed =>
               /\ windows'[i].destroyed
               /\ ~windows'[i].visible /\ ~windows'[i].minimized]_vars
    /\ [][(restoreOrCreateWindow /\ windows # <<>> /\ Live = {})
            => /\ Len(windows') = Len(windows) + 1
               /\ SubSeq(windows', 1, Len(windows)) = windows
               /\ LET w == windows'[Len(windows')]
                  IN  ~w.destroyed /\ ~w.visible /\ w.load = "loading"]_vars

\* After before-quit destroyed the first window, a call has constructed the
\* second, whose load is pending.
C11_Witness ==
    /\ Len(windows) = 2
    /\ windows[1].destroyed
    /\ ~windows[2].destroyed /\ windows[2].load = "loading"

C13_LoadFailureKeepsHidden ==
    /\ [][\A i \in DOMAIN windows :
            loadURLRejected(i) =>
               /\ windows'[i].visible = windows[i].visible
               /\ windows'[i].focused = windows[i].focused
               /\ lastCalls' = <<>>]_vars
    /\ [][\A i \in DOMAIN windows :
            windows[i].load = "failed" => windows'[i].load # "loading"]_vars
    /\ [][\A i \in DOMAIN windows :
            (windows[i].load = "failed" /\ ~windows[i].visible)
               => ~windows'[i].visible]_vars

\* C14: when showOpenDialog rejects for a request (one whose dialogId no
\* other request uses), no response carrying that dialogId is ever sent;
\* the rejection changes no window and leaves the other dialog calls as
\* they are, still to be answered.
C14_DialogFailureUnanswered ==
    /\ [](\A d \in DOMAIN dialogs :
            (dialogs[d].state = "rejected" /\ DistinctId(dialogs[d].req)) =>
               \A s \in BagToSet(sent) :
                   ~(s.channel = ResponseChannel /\ s.args[1] = dialogs[d].dialogId))
    /\ [][\A d \in DOMAIN dialogs :
            dialogRejected(d) =>
               /\ windows' = windows
               /\ sent' = sent
               /\ \A e \in DOMAIN dialogs \ {d} : dialogs'[e] = dialogs[e]]_vars

\* C15: every constructed window has one timer; while it is pending nothing
\* has been sent for it and it can fire whatever the window's state,
\* destroyed included; once fired it has made exactly one send call, on
\* 'container-stopped-event' with 'containerID', on its own window.
TimerSends(i) == {s \in BagToSet(sent) : s.req = 0 /\ s.to = i}

C15_DeferredEmission ==
    \A i \in DOMAIN windows :
        /\ windows[i].timer \in {"pending", "fired"}
        /\ windows[i].timer = "pending" =>
              TimerSends(i) = {} /\ ENABLED timerFired(i)
        /\ windows[i].timer = "fired" =>
              /\ SumCopies(TimerSends(i), sent) = 1
              /\ \A s \in TimerSends(i) :
                    s.channel = "container-stopped-event" /\ s.args = <<"containerID">>

\* The timer of a window has fired after the window was destroyed.
C15_Witness ==
    \E i \in DOMAIN windows :
        /\ windows[i].destroyed /\ windows[i].timer = "fired"
        /\ \E s \in TimerSends(i) : ~s.delivered

\* C16: no send call is ever made on a destroyed window, by the timer, the
\* container-stopped relay or a dialog relay.
C16_NoSendToDestroyed == \A s \in BagToSet(sent) : s.delivered

\* C19: a step of a dialog relay, of the container-stopped relay or of the
\* timer leaves the number of windows and every window's visibility,
\* minimized state and destroyed state as they were.
RelayStep == DialogNext \/ EventNext

C19_RelaysLeaveWindows ==
    [][RelayStep =>
          /\ Len(windows') = Len(windows)
          /\ \A i \in DOMAIN windows :
                /\ windows'[i].visible = windows[i].visible
                /\ windows'[i].minimized = windows[i].minimized
                /\ windows'[i].destroyed = windows[i].destroyed]_vars

\* A minimized window has had its timer fire and has been sent a forwarded
\* container-stopped event and a dialog response.
C19_Witness ==
    \E i \in DOMAIN windows :
        /\ windows[i].minimized /\ windows[i].visible
        /\ \E s \in TimerSends(i) : s.delivered
        /\ \E s \in BagToSet(sent) :
              s.to = i /\ s.req > 0 /\ s.delivered /\ s.channel = "container-stopped-event"
        /\ \E s \in BagToSet(sent) :
              s.to = i /\ s.delivered /\ s.channel = ResponseChannel

\* C17: on macOS the dock icon is shown in every state in which a window is
\* visible.
C17_DockFollowsWindow ==
    isMac => \A i \in DOMAIN windows : windows[i].visible => dockVisible

=============================================================================
